---- MODULE Spec2Model ----
(***************************************************************************)
(* Endpoint resolution and access-mode cache of lfsapi/endpoint_finder.go. *)
(* URLs, configuration keys and values are TLA+ strings; the Go string and *)
(* net/url functions the finder calls are modelled character by character. *)
(***************************************************************************)
EXTENDS Integers, Sequences, FiniteSets, TLC

VARIABLES
    gitEnv,        \* e.gitEnv: key -> list of values (the snapshot read by Get)
    envNil,        \* e.gitEnv == nil
    validRemotes,  \* the strings git.ValidateRemote accepts
    gitProtocol,   \* e.gitProtocol
    aliases,       \* e.aliases: prefix -> replacement
    warned,        \* the alias values storeAlias printed a WARNING for
    urlAccess,     \* e.urlAccess: credential-stripped URL -> AccessMode
    localConfig,   \* the local configuration SetLocal / UnsetLocalKey write
    issued,        \* the URLs of the Access values callers have been handed
    ret,           \* the last call: its arguments and what it returned
    lastRead,      \* per URL, the mode AccessFor returned since the last SetAccess
    lastSet,       \* per URL, the mode the last SetAccess was called with
    accessMu,      \* e.accessMu: the thread holding it, or Free
    aliasMu,       \* e.aliasMu: the thread holding it, or Free
    pc,            \* per thread, where it is in the method it is running
    local,         \* per thread, the arguments and locals of that method
    reads          \* per URL, how often fetchGitAccess has read its key

\* What concurrent callers add to the finder's state.
threadVars == <<accessMu, aliasMu, pc, local, reads>>

vars == <<gitEnv, envNil, validRemotes, gitProtocol, aliases, warned,
          urlAccess, localConfig, issued, ret, lastRead, lastSet, threadVars>>

(***************************************************************************)
(* Go strings (package strings, byte-wise comparison).                     *)
(***************************************************************************)

\* The bytes the model's strings are made of, in ASCII order.
Ascii == "+-./0123456789:@ABCDEFGHIJKLMNOPQRSTUVWXYZ[]_abcdefghijklmnopqrstuvwxyz"

Lower == "abcdefghijklmnopqrstuvwxyz"

Upper == "ABCDEFGHIJKLMNOPQRSTUVWXYZ"

Digits == "0123456789"

Ch(s, i) == SubSeq(s, i, i)

\* The bytes of a string, as a set.
Bytes(s) == {Ch(s, i) : i \in 1..Len(s)}

LowerBytes == Bytes(Lower)

UpperBytes == Bytes(Upper)

DigitBytes == Bytes(Digits)

SetMin(S) == CHOOSE x \in S : \A y \in S : x <= y

SetMax(S) == CHOOSE x \in S : \A y \in S : x >= y

\* strings.Index, 1-based; 0 when sub does not occur in s.
Index(s, sub) ==
    LET I == {i \in 1..(Len(s) - Len(sub) + 1) : SubSeq(s, i, i + Len(sub) - 1) = sub}
    IN  IF I = {} THEN 0 ELSE SetMin(I)

\* strings.LastIndex, 1-based; 0 when sub does not occur in s.
LastIndex(s, sub) ==
    LET I == {i \in 1..(Len(s) - Len(sub) + 1) : SubSeq(s, i, i + Len(sub) - 1) = sub}
    IN  IF I = {} THEN 0 ELSE SetMax(I)

Contains(s, sub) == Index(s, sub) # 0

HasPrefix(s, p) == Len(s) >= Len(p) /\ SubSeq(s, 1, Len(p)) = p

HasSuffix(s, p) == Len(s) >= Len(p) /\ SubSeq(s, Len(s) - Len(p) + 1, Len(s)) = p

\* s[n:] in Go, n counted from 0.
From(s, n) == SubSeq(s, n + 1, Len(s))

TrimPrefix(s, p) == IF HasPrefix(s, p) THEN From(s, Len(p)) ELSE s

TrimSuffix(s, p) == IF HasSuffix(s, p) THEN SubSeq(s, 1, Len(s) - Len(p)) ELSE s

\* The byte value order of one-character strings.
Code(c) == Index(Ascii, c)

\* a < b on Go strings: byte-wise lexicographic order.
StrLess(a, b) ==
    \E i \in 1..Len(b) :
        /\ i <= Len(a) + 1
        /\ SubSeq(a, 1, i - 1) = SubSeq(b, 1, i - 1)
        /\ (i = Len(a) + 1 \/ Code(Ch(a, i)) < Code(Ch(b, i)))

RECURSIVE ToLower(_)
\* strings.ToLower on ASCII.
ToLower(s) ==
    IF s = "" THEN ""
    ELSE LET c == Ch(s, 1)
         IN  (IF c \in UpperBytes THEN Ch(Lower, Index(Upper, c)) ELSE c)
             \o ToLower(From(s, 1))

RECURSIVE Split(_, _)
\* strings.Split(s, sep) for a one-byte separator: a sequence of strings.
Split(s, sep) ==
    LET i == Index(s, sep)
    IN  IF i = 0 THEN <<s>>
        ELSE <<SubSeq(s, 1, i - 1)>> \o Split(From(s, i), sep)

RECURSIVE Join(_, _)
\* strings.Join(parts, sep).
Join(parts, sep) ==
    IF Len(parts) = 0 THEN ""
    ELSE IF Len(parts) = 1 THEN parts[1]
    ELSE parts[1] \o sep \o Join(Tail(parts), sep)

\* Every byte of s is a decimal digit.
AllDigits(s) == \A i \in 1..Len(s) : Ch(s, i) \in DigitBytes

\* path.Ext: the suffix beginning at the final dot of the final
\* slash-separated element; empty when there is no dot.
PathExt(p) ==
    LET slash == LastIndex(p, "/")
        dot   == LastIndex(p, ".")
    IN  IF dot > slash THEN SubSeq(p, dot, Len(p)) ELSE ""

(***************************************************************************)
(* net/url: Parse and URL.String on strings without '?', '#', '%' and      *)
(* control bytes (none of them is in Ascii).                               *)
(***************************************************************************)

\* A *url.Userinfo: the nil pointer, or the userinfo text.
NoUser == [set |-> FALSE, info |-> ""]

UserInfo(info) == [set |-> TRUE, info |-> info]

ParseError ==
    [err |-> TRUE, Scheme |-> "", Opaque |-> "", User |-> NoUser,
     Host |-> "", Path |-> ""]

URL(scheme, opaque, user, host, path) ==
    [err |-> FALSE, Scheme |-> scheme, Opaque |-> opaque, User |-> user,
     Host |-> host, Path |-> path]

RECURSIVE SchemeEnd(_, _)
\* url.getScheme's scan from byte i: the position of the ':' ending a scheme,
\* 0 when the string has no scheme, -1 for "missing protocol scheme".
SchemeEnd(raw, i) ==
    IF i > Len(raw) THEN 0
    ELSE LET c == Ch(raw, i)
         IN  IF c \in LowerBytes \/ c \in UpperBytes THEN SchemeEnd(raw, i + 1)
             ELSE IF c \in DigitBytes \/ c \in {"+", "-", "."}
                  THEN IF i = 1 THEN 0 ELSE SchemeEnd(raw, i + 1)
             ELSE IF c = ":" THEN IF i = 1 THEN -1 ELSE i
             ELSE 0

\* url.validOptionalPort: "" or ":" followed by digits.
ValidOptionalPort(port) ==
    \/ port = ""
    \/ HasPrefix(port, ":") /\ AllDigits(From(port, 1))

\* url.parseHost: TRUE when the host is rejected.
HostError(host) ==
    IF HasPrefix(host, "[")
    THEN LET i == LastIndex(host, "]")
         IN  i = 0 \/ ~ValidOptionalPort(From(host, i))
    ELSE LET i == LastIndex(host, ":")
         IN  i # 0 /\ ~ValidOptionalPort(SubSeq(host, i, Len(host)))

\* url.validUserinfo on the model's bytes: '/', '[' and ']' are rejected.
ValidUserinfo(s) == \A i \in 1..Len(s) : Ch(s, i) \notin {"/", "[", "]"}

\* url.parseAuthority, i being the position of the last '@': user and host.
parseUserHost(authority, i, host) ==
    IF HostError(host) THEN ParseError
    ELSE IF i = 0 THEN [err |-> FALSE, User |-> NoUser, Host |-> host]
    ELSE IF ~ValidUserinfo(SubSeq(authority, 1, i - 1)) THEN ParseError
    ELSE [err |-> FALSE, User |-> UserInfo(SubSeq(authority, 1, i - 1)), Host |-> host]

splitAuthority(authority, i) ==
    parseUserHost(authority, i, IF i = 0 THEN authority ELSE From(authority, i))

\* url.parseAuthority.
ParseAuthority(authority) == splitAuthority(authority, LastIndex(authority, "@"))

\* The URL url.parse returns for a parsed authority ua and the path after it.
authorityUrl(scheme, ua, path) ==
    IF ua.err THEN ParseError ELSE URL(scheme, "", ua.User, ua.Host, path)

\* url.parse from the authority on: "//" authority path.
parseAuthorityPath(scheme, a, i) ==
    authorityUrl(scheme, ParseAuthority(IF i = 0 THEN a ELSE SubSeq(a, 1, i - 1)),
                 IF i = 0 THEN "" ELSE From(a, i - 1))

\* url.parse after getScheme: rest is what follows the scheme.
parseRest(scheme, rest) ==
    IF ~HasPrefix(rest, "/") /\ scheme # ""
    THEN URL(scheme, rest, NoUser, "", "")
    ELSE IF ~HasPrefix(rest, "/") /\ Contains(Split(rest, "/")[1], ":")
    THEN ParseError
    ELSE IF HasPrefix(rest, "//") /\ (scheme # "" \/ ~HasPrefix(rest, "///"))
    THEN parseAuthorityPath(scheme, From(rest, 2), Index(From(rest, 2), "/"))
    ELSE URL(scheme, "", NoUser, "", rest)

\* url.parse, e being where getScheme found the end of the scheme.
parseScheme(raw, e) ==
    IF e = -1 THEN ParseError
    ELSE IF e = 0 THEN parseRest("", raw)
    ELSE parseRest(ToLower(SubSeq(raw, 1, e - 1)), From(raw, e))

\* url.Parse.
Parse(raw) == parseScheme(raw, SchemeEnd(raw, 1))

\* (*url.URL).String.
String(u) ==
    LET head == IF u.Scheme # "" THEN u.Scheme \o ":" ELSE ""
    IN  IF u.Opaque # "" THEN head \o u.Opaque
        ELSE
        LET auth == IF u.Scheme # "" \/ u.Host # "" \/ u.User.set
                    THEN (IF u.Host # "" \/ u.Path # "" \/ u.User.set
                          THEN "//" ELSE "")
                         \o (IF u.User.set THEN u.User.info \o "@" ELSE "")
                         \o u.Host
                    ELSE ""
            sep  == IF u.Path # "" /\ Ch(u.Path, 1) # "/" /\ u.Host # ""
                    THEN "/" ELSE ""
            dot  == IF head \o auth \o sep = "" /\ Contains(Split(u.Path, "/")[1], ":")
                    THEN "./" ELSE ""
        IN  head \o auth \o sep \o dot \o u.Path

\* (*url.Userinfo).Username: the userinfo up to its first ':'.
Username(user) == IF user.set THEN Split(user.info, ":")[1] ELSE ""

(***************************************************************************)
(* lfshttp.Endpoint and its constructors.                                  *)
(***************************************************************************)

UrlUnknown == "<unknown>"

\* The zero value lfshttp.Endpoint{}.
EmptyEndpoint ==
    [Url |-> "", SshUserAndHost |-> "", SshPath |-> "", SshPort |-> "",
     Operation |-> ""]

EndpointUrl(url) == [EmptyEndpoint EXCEPT !.Url = url]

\* lfshttp.EndpointFromSshUrl: host[:port] split, https fallback URL.
EndpointFromSshUrl(u) ==
    LET i    == Index(u.Host, ":")
        host == IF i = 0 THEN u.Host ELSE SubSeq(u.Host, 1, i - 1)
        port == IF i = 0 THEN "" ELSE From(u.Host, i)
    IN  IF host = "" \/ (i # 0 /\ (port = "" \/ ~AllDigits(port)))
        THEN EndpointUrl(UrlUnknown)
        ELSE [Url            |-> "https://" \o host \o u.Path,
              SshUserAndHost |-> IF Username(u.User) # ""
                                 THEN Username(u.User) \o "@" \o host ELSE host,
              SshPath        |-> TrimPrefix(u.Path, "/"),
              SshPort        |-> port,
              Operation      |-> ""]

\* EndpointFromBareSshUrl's result for the rewritten URL it parsed.
bareSshParsed(newu) ==
    IF newu.err THEN EndpointUrl(UrlUnknown) ELSE EndpointFromSshUrl(newu)

\* EndpointFromBareSshUrl's rewriting of the ':'-separated parts.
bareSshPath(parts) ==
    IF Len(parts) > 2
    THEN TrimPrefix(parts[1], "[") \o ":"
         \o Join(<<TrimSuffix(parts[2], "]")>> \o SubSeq(parts, 3, Len(parts)), "/")
    ELSE Join(parts, "/")

bareSshParts(rawurl, parts) ==
    IF Len(parts) < 2 THEN EndpointUrl(rawurl)
    ELSE bareSshParsed(Parse("ssh://" \o bareSshPath(parts)))

\* lfshttp.EndpointFromBareSshUrl: user@host:path and [user@host:port]:path.
EndpointFromBareSshUrl(rawurl) == bareSshParts(rawurl, Split(rawurl, ":"))

\* lfshttp.EndpointFromHttpUrl.
EndpointFromHttpUrl(u) == EndpointUrl(String(u))

\* lfshttp.EndpointFromLocalPath.
EndpointFromLocalPath(path) ==
    EndpointUrl("file://" \o (IF HasSuffix(path, ".git") THEN path ELSE path \o "/.git"))

(***************************************************************************)
(* Collaborators: the configuration environment (config.Environment), the  *)
(* local configuration writer (git.Configuration) and git.ValidateRemote.  *)
(***************************************************************************)

\* A map with no key.
EmptyMap == [k \in {} |-> ""]

\* m[k] = v in Go: the map with key k set to v.
Put(m, k, v) == [x \in DOMAIN m \cup {k} |-> IF x = k THEN v ELSE m[x]]

\* delete(m, k).
Remove(m, k) == [x \in DOMAIN m \ {k} |-> m[x]]

\* Environment.Get: the last value of the key and whether the key is set.
\* env maps each key to the list of its values, as Environment.All returns it.
Get(env, key) ==
    IF key \in DOMAIN env /\ Len(env[key]) > 0
    THEN [v |-> env[key][Len(env[key])], ok |-> TRUE]
    ELSE [v |-> "", ok |-> FALSE]

\* URLConfig.Get("lfs", rawurl, "access"): the value of lfs.<rawurl>.access.
UrlConfigGet(env, rawurl) == Get(env, "lfs." \o rawurl \o ".access")

\* git.ValidateRemote(remote) == nil: the string names a configured remote
\* or is itself a usable remote URL.
ValidateRemote(e, remote) == remote \in e.validRemotes

(***************************************************************************)
(* endpointGitFinder: the pure part. e is the finder: gitEnv (with envNil  *)
(* for a nil environment), gitProtocol, aliases, validRemotes.             *)
(***************************************************************************)

defaultRemote == "origin"

aliasPrefix == "url."

\* The alias the scan of ReplaceUrlAlias ends with: every matching alias a
\* satisfies longestalias < a at most until it is taken, so the scan ends
\* with the greatest matching alias in string order, "" when none matches
\* (or only "" does).
LongestAlias(e, rawurl) ==
    LET matching == {a \in DOMAIN e.aliases : HasPrefix(rawurl, a)}
    IN  IF matching = {} THEN ""
        ELSE CHOOSE a \in matching : \A b \in matching : ~StrLess(a, b)

ReplaceUrlAlias(e, rawurl) ==
    LET longestalias == LongestAlias(e, rawurl)
    IN  IF Len(longestalias) > 0
        THEN e.aliases[longestalias] \o From(rawurl, Len(longestalias))
        ELSE rawurl

endpointFromGitUrl(u, e) ==
    EndpointUrl(String([u EXCEPT !.Scheme = e.gitProtocol]))

\* classify without the remote-helper pass-through: every scheme that is not
\* ssh, http, https or git is read as a bare SSH address.
classify_NoPassThrough(e, rawurl, u) ==
    IF HasPrefix(rawurl, "/") THEN EndpointFromLocalPath(rawurl)
    ELSE IF u.err THEN EndpointFromBareSshUrl(rawurl)
    ELSE IF u.Scheme = "ssh" THEN EndpointFromSshUrl(u)
    ELSE IF u.Scheme \in {"http", "https"} THEN EndpointFromHttpUrl(u)
    ELSE IF u.Scheme = "git" THEN endpointFromGitUrl(u, e)
    ELSE EndpointFromBareSshUrl(String(u))

\* NewEndpoint's classification of the alias-replaced URL rawurl, u being
\* url.Parse(rawurl).
classify(e, rawurl, u) ==
    IF HasPrefix(rawurl, "/") THEN EndpointFromLocalPath(rawurl)
    ELSE IF u.err THEN EndpointFromBareSshUrl(rawurl)
    ELSE IF u.Scheme = "ssh" THEN EndpointFromSshUrl(u)
    ELSE IF u.Scheme \in {"http", "https"} THEN EndpointFromHttpUrl(u)
    ELSE IF u.Scheme = "git" THEN endpointFromGitUrl(u, e)
    ELSE IF u.Scheme = "" THEN EndpointFromBareSshUrl(String(u))
    ELSE IF HasPrefix(rawurl, u.Scheme \o "::") THEN EndpointUrl(rawurl)
    ELSE EndpointFromBareSshUrl(String(u))

\* NewEndpoint from the alias-replaced URL on.
parseAndClassify(e, rawurl) == classify(e, rawurl, Parse(rawurl))

NewEndpoint(e, operation, raw) == parseAndClassify(e, ReplaceUrlAlias(e, raw))

\* NewEndpointFromCloneURL from the endpoint ep that NewEndpoint returned
\* for rawurl on.
cloneSuffix(ep, rawurl) ==
    LET stripped == IF HasSuffix(rawurl, "/")
                    THEN [ep EXCEPT !.Url = SubSeq(rawurl, 1, Len(rawurl) - 1)]
                    ELSE ep
    IN  IF ep.Url = UrlUnknown THEN ep
        ELSE IF PathExt(stripped.Url) = ".git"
             THEN [stripped EXCEPT !.Url = @ \o "/info/lfs"]
             ELSE [stripped EXCEPT !.Url = @ \o ".git/info/lfs"]

NewEndpointFromCloneURL(e, operation, rawurl) ==
    cloneSuffix(NewEndpoint(e, operation, rawurl), rawurl)

GitRemoteURL(e, remote, forpush) ==
    LET pushurl == Get(e.gitEnv, "remote." \o remote \o ".pushurl")
        url     == Get(e.gitEnv, "remote." \o remote \o ".url")
    IN  IF ~e.envNil /\ forpush /\ pushurl.ok THEN pushurl.v
        ELSE IF ~e.envNil /\ url.ok THEN url.v
        ELSE IF ValidateRemote(e, remote) THEN remote
        ELSE ""

\* RemoteEndpoint deriving the endpoint from the remote's git URL before it
\* looks at remote.<r>.lfsurl.
RemoteEndpoint_CloneUrlFirst(e, operation, remoteArg) ==
    LET remote     == IF Len(remoteArg) = 0 THEN defaultRemote ELSE remoteArg
        lfspushurl == Get(e.gitEnv, "remote." \o remote \o ".lfspushurl")
        lfsurl     == Get(e.gitEnv, "remote." \o remote \o ".lfsurl")
        url        == GitRemoteURL(e, remote, operation = "upload")
    IN  IF e.envNil THEN EmptyEndpoint
        ELSE IF operation = "upload" /\ lfspushurl.ok
             THEN NewEndpoint(e, operation, lfspushurl.v)
        ELSE IF url # "" THEN NewEndpointFromCloneURL(e, operation, url)
        ELSE IF lfsurl.ok THEN NewEndpoint(e, operation, lfsurl.v)
        ELSE EmptyEndpoint

RemoteEndpoint(e, operation, remoteArg) ==
    LET remote     == IF Len(remoteArg) = 0 THEN defaultRemote ELSE remoteArg
        lfspushurl == Get(e.gitEnv, "remote." \o remote \o ".lfspushurl")
        lfsurl     == Get(e.gitEnv, "remote." \o remote \o ".lfsurl")
        url        == GitRemoteURL(e, remote, operation = "upload")
    IN  IF e.envNil THEN EmptyEndpoint
        ELSE IF operation = "upload" /\ lfspushurl.ok
             THEN NewEndpoint(e, operation, lfspushurl.v)
        ELSE IF lfsurl.ok THEN NewEndpoint(e, operation, lfsurl.v)
        ELSE IF url # "" THEN NewEndpointFromCloneURL(e, operation, url)
        ELSE EmptyEndpoint

\* getEndpointFrom reading lfs.pushurl for every operation.
getEndpointFrom_PushUrlAlways(e, operation, remote, scoped) ==
    LET pushurl == Get(e.gitEnv, "lfs.pushurl")
        url     == Get(e.gitEnv, "lfs.url")
    IN  IF e.envNil THEN EmptyEndpoint
        ELSE IF pushurl.ok THEN NewEndpoint(e, operation, pushurl.v)
        ELSE IF url.ok THEN NewEndpoint(e, operation, url.v)
        ELSE IF Len(remote) > 0 /\ remote # defaultRemote /\ Len(scoped.Url) > 0
             THEN scoped
        ELSE RemoteEndpoint(e, operation, defaultRemote)

\* getEndpointFrom returning the named remote's result even when its URL is empty.
getEndpointFrom_NoFallback(e, operation, remote, scoped) ==
    LET pushurl == Get(e.gitEnv, "lfs.pushurl")
        url     == Get(e.gitEnv, "lfs.url")
    IN  IF e.envNil THEN EmptyEndpoint
        ELSE IF operation = "upload" /\ pushurl.ok
             THEN NewEndpoint(e, operation, pushurl.v)
        ELSE IF url.ok THEN NewEndpoint(e, operation, url.v)
        ELSE IF Len(remote) > 0 /\ remote # defaultRemote THEN scoped
        ELSE RemoteEndpoint(e, operation, defaultRemote)

\* getEndpoint, scoped being its e.RemoteEndpoint(operation, remote).
getEndpointFrom(e, operation, remote, scoped) ==
    LET pushurl == Get(e.gitEnv, "lfs.pushurl")
        url     == Get(e.gitEnv, "lfs.url")
    IN  IF e.envNil THEN EmptyEndpoint
        ELSE IF operation = "upload" /\ pushurl.ok
             THEN NewEndpoint(e, operation, pushurl.v)
        ELSE IF url.ok THEN NewEndpoint(e, operation, url.v)
        ELSE IF Len(remote) > 0 /\ remote # defaultRemote /\ Len(scoped.Url) > 0
             THEN scoped
        ELSE RemoteEndpoint(e, operation, defaultRemote)

getEndpoint(e, operation, remote) ==
    getEndpointFrom(e, operation, remote, RemoteEndpoint(e, operation, remote))

\* Endpoint returning getEndpoint's result without the operation.
Endpoint_Untagged(e, operation, remote) == getEndpoint(e, operation, remote)

Endpoint(e, operation, remote) ==
    [getEndpoint(e, operation, remote) EXCEPT !.Operation = operation]

(***************************************************************************)
(* Access modes and the access cache.                                      *)
(***************************************************************************)

NoneAccess == "none"

BasicAccess == "basic"

PrivateAccess == "private"

NegotiateAccess == "negotiate"

NTLMAccess == "ntlm"

emptyAccess == ""

AccessModes ==
    {NoneAccess, BasicAccess, PrivateAccess, NegotiateAccess, NTLMAccess, emptyAccess}

Access(mode, url) == [mode |-> mode, url |-> url]

\* (*Access).Upgrade: a copy with the mode replaced.
Upgrade(a, newMode) == Access(newMode, a.url)

urlWithoutAuth(rawurl) ==
    LET u == Parse(rawurl)
    IN  IF ~Contains(rawurl, "@") THEN rawurl
        ELSE IF u.err THEN rawurl
        ELSE String([u EXCEPT !.User = NoUser])

\* fetchGitAccess without the private -> basic normalisation.
fetchGitAccess_NoNormalise(e, rawurl) ==
    LET v == UrlConfigGet(e.gitEnv, rawurl).v
    IN  IF Len(v) > 0 THEN ToLower(v) ELSE NoneAccess

fetchGitAccess(e, rawurl) ==
    LET v      == UrlConfigGet(e.gitEnv, rawurl).v
        access == ToLower(v)
    IN  IF Len(v) > 0
        THEN IF access = PrivateAccess THEN BasicAccess ELSE access
        ELSE NoneAccess

\* SetAccess's key.
AccessKey(url) == "lfs." \o url \o ".access"

(***************************************************************************)
(* Construction: NewEndpointFinder.                                        *)
(***************************************************************************)

\* storeAlias keeping the replacement the table already has for the alias.
storeAlias_FirstWins(t, key, value, suffix) ==
    LET alias == value[Len(value)]
    IN  [aliases |-> IF alias \in DOMAIN t.aliases THEN t.aliases
                     ELSE Put(t.aliases, alias,
                              SubSeq(key, Len(aliasPrefix) + 1, Len(key) - Len(suffix))),
         warned  |-> IF alias \in DOMAIN t.aliases
                     THEN t.warned \cup {alias} ELSE t.warned]

\* One call of storeAlias on the table and the warnings so far.
storeAlias(t, key, value, suffix) ==
    LET alias == value[Len(value)]
    IN  [aliases |-> Put(t.aliases, alias,
                         SubSeq(key, Len(aliasPrefix) + 1, Len(key) - Len(suffix))),
         warned  |-> IF alias \in DOMAIN t.aliases
                     THEN t.warned \cup {alias} ELSE t.warned]

RECURSIVE initAliasesFrom(_, _, _)
\* initAliases's loop over git.All(), visiting the keys in the given order.
initAliasesFrom(t, env, order) ==
    IF Len(order) = 0 THEN t
    ELSE LET gitkey == Head(order)
             gitval == env[gitkey]
             skip   == Len(gitval) = 0
                       \/ ~(HasPrefix(gitkey, aliasPrefix) /\ HasSuffix(gitkey, ".insteadof"))
         IN  initAliasesFrom(IF skip THEN t ELSE storeAlias(t, gitkey, gitval, ".insteadof"),
                             env, Tail(order))

\* The orders in which a Go range over a map with these keys can visit them.
Orders(keys) ==
    {o \in [1..Cardinality(keys) -> keys] : \A k \in keys : \E i \in DOMAIN o : o[i] = k}

initAliases(env, order) ==
    initAliasesFrom([aliases |-> EmptyMap, warned |-> {}], env, order)

\* The keys initAliases does not skip.
AliasKeys(env) ==
    {k \in DOMAIN env : Len(env[k]) > 0 /\ HasPrefix(k, aliasPrefix) /\ HasSuffix(k, ".insteadof")}

NoCall ==
    [op |-> "", operation |-> "", arg |-> "", forpush |-> FALSE, ep |-> EmptyEndpoint,
     str |-> "", access |-> Access("", ""), fetched |-> FALSE, hit |-> FALSE]

\* The locals of a thread that is in no method.
NoLocals ==
    [op |-> "", rawurl |-> "", access |-> Access("", ""), uncached |-> FALSE,
     hit |-> FALSE, fetched |-> FALSE, str |-> "", ep |-> EmptyEndpoint]

\* The goroutines calling the finder, and the zero sync.Mutex.
Threads == {"t1", "t2"}

Free == "free"

\* The finder NewEndpointFinder builds from the environment env, the alias
\* keys visited in some order; a nil environment leaves the defaults.
NewEndpointFinder(env, nil, remotes) ==
    /\ gitEnv = env
    /\ envNil = nil
    /\ validRemotes = remotes
    /\ gitProtocol = IF ~nil /\ Get(env, "lfs.gitprotocol").ok
                     THEN Get(env, "lfs.gitprotocol").v ELSE "https"
    /\ \E order \in Orders(AliasKeys(env)) :
           LET t == initAliases(env, order)
           IN  aliases = t.aliases /\ warned = t.warned
    /\ urlAccess = EmptyMap
    /\ localConfig = [k \in {x \in DOMAIN env : Len(env[x]) > 0 /\ HasPrefix(x, "lfs.")
                                              /\ HasSuffix(x, ".access")}
                        |-> env[k][Len(env[k])]]
    /\ issued = {""}
    /\ ret = NoCall
    /\ lastRead = EmptyMap
    /\ lastSet = EmptyMap
    /\ accessMu = Free
    /\ aliasMu = Free
    /\ pc = [t \in Threads |-> "idle"]
    /\ local = [t \in Threads |-> NoLocals]
    /\ reads = EmptyMap

\* The finder as the pure operators take it.
Finder ==
    [gitEnv |-> gitEnv, envNil |-> envNil, gitProtocol |-> gitProtocol,
     aliases |-> aliases, validRemotes |-> validRemotes]

(***************************************************************************)
(* Inputs.                                                                 *)
(***************************************************************************)

Operations == {"download", "upload"}

\* The URLs AccessFor is asked about: one URL with and without credentials,
\* a bare SSH address, which url.Parse rejects, and the URL of the zero Access.
AccessUrls == {"https://h/r", "https://u:p@h/r", "git@h:r", ""}

\* The values lfs.<url>.access has in the environments of Spec.
AccessEnvs ==
    {[k \in {} |-> <<>>]}
    \cup {[k \in {AccessKey("https://h/r")} |-> <<v>>] : v \in {"private", ""}}
    \cup {[k \in {AccessKey("https://h/r"), AccessKey("git@h:r")} |->
              IF k = AccessKey("git@h:r") THEN <<"Negotiate">> ELSE <<"basic", "PRIVATE">>]}

\* The modes callers set; NTLMAccess takes the same branch as NegotiateAccess.
SetModes == AccessModes \ {NTLMAccess}

(***************************************************************************)
(* The operations on the access cache. Each holds accessMu from its first  *)
(* read of urlAccess to its return, so each is one step.                   *)
(***************************************************************************)

\* AccessFor without the cache check: every call reads the configuration.
AccessFor_Refetch(rawurl) ==
    LET accessurl == urlWithoutAuth(rawurl)
        mode      == IF envNil THEN NoneAccess ELSE fetchGitAccess(Finder, accessurl)
    IN  /\ urlAccess' = IF envNil THEN urlAccess ELSE Put(urlAccess, accessurl, mode)
        /\ ret' = [NoCall EXCEPT !.op = "AccessFor", !.arg = rawurl,
                                 !.access = Access(mode, accessurl),
                                 !.hit = FALSE, !.fetched = ~envNil]
        /\ issued' = issued \cup {accessurl}
        /\ lastRead' = Put(lastRead, accessurl, mode)
        /\ UNCHANGED <<threadVars, gitEnv, envNil, validRemotes, gitProtocol, aliases, warned,
                       localConfig, lastSet>>

\* AccessFor caching the mode none it returns for want of an environment.
AccessFor_CacheWithoutEnv(rawurl) ==
    LET accessurl == urlWithoutAuth(rawurl)
        hit       == ~envNil /\ accessurl \in DOMAIN urlAccess
        mode      == IF envNil THEN NoneAccess
                     ELSE IF hit THEN urlAccess[accessurl]
                     ELSE fetchGitAccess(Finder, accessurl)
    IN  /\ urlAccess' = IF hit THEN urlAccess ELSE Put(urlAccess, accessurl, mode)
        /\ ret' = [NoCall EXCEPT !.op = "AccessFor", !.arg = rawurl,
                                 !.access = Access(mode, accessurl),
                                 !.hit = hit, !.fetched = ~envNil /\ ~hit]
        /\ issued' = issued \cup {accessurl}
        /\ lastRead' = Put(lastRead, accessurl, mode)
        /\ UNCHANGED <<threadVars, gitEnv, envNil, validRemotes, gitProtocol, aliases, warned,
                       localConfig, lastSet>>

\* AccessFor persisting the mode it caches on a miss.
AccessFor_Persist(rawurl) ==
    LET accessurl == urlWithoutAuth(rawurl)
        hit       == ~envNil /\ accessurl \in DOMAIN urlAccess
        mode      == IF envNil THEN NoneAccess
                     ELSE IF hit THEN urlAccess[accessurl]
                     ELSE fetchGitAccess(Finder, accessurl)
    IN  /\ urlAccess' = IF envNil \/ hit THEN urlAccess ELSE Put(urlAccess, accessurl, mode)
        /\ localConfig' = IF envNil \/ hit THEN localConfig
                          ELSE Put(localConfig, AccessKey(accessurl), mode)
        /\ ret' = [NoCall EXCEPT !.op = "AccessFor", !.arg = rawurl,
                                 !.access = Access(mode, accessurl),
                                 !.hit = hit, !.fetched = ~envNil /\ ~hit]
        /\ issued' = issued \cup {accessurl}
        /\ lastRead' = Put(lastRead, accessurl, mode)
        /\ UNCHANGED <<threadVars, gitEnv, envNil, validRemotes, gitProtocol, aliases, warned,
                       lastSet>>

AccessFor(rawurl) ==
    LET accessurl == urlWithoutAuth(rawurl)
        hit       == ~envNil /\ accessurl \in DOMAIN urlAccess
        mode      == IF envNil THEN NoneAccess
                     ELSE IF hit THEN urlAccess[accessurl]
                     ELSE fetchGitAccess(Finder, accessurl)
    IN  /\ urlAccess' = IF envNil \/ hit THEN urlAccess ELSE Put(urlAccess, accessurl, mode)
        /\ ret' = [NoCall EXCEPT !.op = "AccessFor", !.arg = rawurl,
                                 !.access = Access(mode, accessurl),
                                 !.hit = hit, !.fetched = ~envNil /\ ~hit]
        /\ issued' = issued \cup {accessurl}
        /\ lastRead' = Put(lastRead, accessurl, mode)
        /\ UNCHANGED <<threadVars, gitEnv, envNil, validRemotes, gitProtocol, aliases, warned,
                       localConfig, lastSet>>

\* SetAccess writing the configuration but not the cache.
SetAccess_ConfigOnly(access) ==
    LET key == AccessKey(access.url)
    IN  /\ localConfig' = IF access.mode \in {emptyAccess, NoneAccess}
                          THEN Remove(localConfig, key)
                          ELSE Put(localConfig, key, access.mode)
        /\ ret' = [NoCall EXCEPT !.op = "SetAccess", !.arg = access.url, !.access = access]
        /\ lastRead' = Remove(lastRead, access.url)
        /\ lastSet' = Put(lastSet, access.url, access.mode)
        /\ UNCHANGED <<threadVars, gitEnv, envNil, validRemotes, gitProtocol, aliases, warned,
                       issued, urlAccess>>

SetAccess(access) ==
    LET key == AccessKey(access.url)
    IN  /\ IF access.mode \in {emptyAccess, NoneAccess}
           THEN /\ localConfig' = Remove(localConfig, key)
                /\ urlAccess' = Put(urlAccess, access.url, NoneAccess)
           ELSE /\ localConfig' = Put(localConfig, key, access.mode)
                /\ urlAccess' = Put(urlAccess, access.url, access.mode)
        /\ ret' = [NoCall EXCEPT !.op = "SetAccess", !.arg = access.url, !.access = access]
        /\ lastRead' = Remove(lastRead, access.url)
        /\ lastSet' = Put(lastSet, access.url, access.mode)
        /\ UNCHANGED <<threadVars, gitEnv, envNil, validRemotes, gitProtocol, aliases, warned,
                       issued>>

\* A caller passes SetAccess an Access it was handed (or the zero Access),
\* as it is or upgraded.
CallAccessFor == \E rawurl \in AccessUrls : AccessFor(rawurl)

CallSetAccess ==
    \E url \in issued, mode \in SetModes :
        SetAccess(Upgrade(Access(emptyAccess, url), mode))

\* NewEndpointFinder reads e.gitEnv (lfs.gitprotocol), so the finders it
\* returns have an environment.
Init == \E env \in AccessEnvs : NewEndpointFinder(env, FALSE, {})

\* The caller has taken the result of the last call.
Return ==
    /\ ret # NoCall
    /\ ret' = NoCall
    /\ UNCHANGED <<threadVars, gitEnv, envNil, validRemotes, gitProtocol, aliases, warned,
                   urlAccess, localConfig, issued, lastRead, lastSet>>

Idle == ret = NoCall

Next ==
    \/ Idle /\ CallAccessFor
    \/ Idle /\ CallSetAccess
    \/ Return

Spec == Init /\ [][Next]_vars

(***************************************************************************)
(* The resolution cascade: Endpoint, RemoteEndpoint and GitRemoteURL on    *)
(* finders built from every environment of at most MaxKeys settings.       *)
(***************************************************************************)

MaxKeys == 3

\* Settings an environment can hold: a key and the list of its values.
CascadeSettings ==
    { <<"lfs.pushurl", <<"https://gp/api">>>>,
      <<"lfs.url", <<"https://g/api">>>>,
      <<"remote.origin.lfspushurl", <<"https://op/api">>>>,
      <<"remote.origin.lfsurl", <<"https://a/api">>>>,
      <<"remote.origin.pushurl", <<"git@a:p">>>>,
      <<"remote.origin.url", <<"https://a/r.git">>>>,
      <<"remote.up.lfspushurl", <<"https://up/p">>>>,
      <<"remote.up.lfsurl", <<"https://up/api">>>>,
      <<"remote.up.lfsurl", <<"">>>>,
      <<"remote.up.pushurl", <<"ssh://git@up/p">>>>,
      <<"remote.up.url", <<"git://up/r/">>>>,
      <<"remote.up.url", <<"https://old/r", "https://up/r">>>>,
      <<"url.https://m/.insteadof", <<"https://a/">>>> }

\* The environment holding the settings S (one per key).
EnvOf(S) == [k \in {p[1] : p \in S} |-> (CHOOSE p \in S : p[1] = k)[2]]

\* The environments of at most n of the settings, no key twice.
Envs(settings, n) ==
    {EnvOf(S) : S \in {T \in SUBSET settings :
                          /\ Cardinality(T) <= n
                          /\ \A p, q \in T : p[1] = q[1] => p = q}}

\* The remote names callers pass: none, the default, a configured remote,
\* and a string that is at most a literal remote (it has no remote.v keys).
Remotes == {"", "origin", "up", "v"}

CallEndpoint ==
    \E operation \in Operations, remote \in Remotes :
        /\ ret' = [NoCall EXCEPT !.op = "Endpoint", !.operation = operation,
                                 !.arg = remote,
                                 !.ep = Endpoint(Finder, operation, remote)]
        /\ UNCHANGED <<threadVars, gitEnv, envNil, validRemotes, gitProtocol, aliases, warned,
                       urlAccess, localConfig, issued, lastRead, lastSet>>

CallRemoteEndpoint ==
    \E operation \in Operations, remote \in Remotes :
        /\ ret' = [NoCall EXCEPT !.op = "RemoteEndpoint", !.operation = operation,
                                 !.arg = remote,
                                 !.ep = RemoteEndpoint(Finder, operation, remote)]
        /\ UNCHANGED <<threadVars, gitEnv, envNil, validRemotes, gitProtocol, aliases, warned,
                       urlAccess, localConfig, issued, lastRead, lastSet>>

CallGitRemoteURL ==
    \E remote \in Remotes, forpush \in BOOLEAN :
        /\ ret' = [NoCall EXCEPT !.op = "GitRemoteURL", !.arg = remote,
                                 !.forpush = forpush,
                                 !.str = GitRemoteURL(Finder, remote, forpush)]
        /\ UNCHANGED <<threadVars, gitEnv, envNil, validRemotes, gitProtocol, aliases, warned,
                       urlAccess, localConfig, issued, lastRead, lastSet>>

InitCascade ==
    \E env \in Envs(CascadeSettings, MaxKeys), remotes \in {{}, {"v"}} :
        NewEndpointFinder(env, FALSE, remotes)

NextCascade ==
    \/ Idle /\ CallEndpoint
    \/ Idle /\ CallRemoteEndpoint
    \/ Idle /\ CallGitRemoteURL
    \/ Return

SpecCascade == InitCascade /\ [][NextCascade]_vars

(***************************************************************************)
(* URL classification and alias rewriting: NewEndpoint,                    *)
(* NewEndpointFromCloneURL and ReplaceUrlAlias on finders built from every *)
(* environment of at most MaxKeys of the settings below.                   *)
(***************************************************************************)

\* url.<X>.insteadof settings (nested prefixes, one prefix claimed by two
\* keys, an empty value, a key with two values) and lfs.gitprotocol.
UrlSettings ==
    { <<"url.https://g/.insteadof", <<"gh:">>>>,
      <<"url.git://x/.insteadof", <<"gh:x">>>>,
      <<"url.ssh://d/.insteadof", <<"gh:">>>>,
      <<"url.https://z/.insteadof", <<"">>>>,
      <<"url.https://m/.insteadof", <<"https://h/", "git://h/">>>>,
      <<"lfs.gitprotocol", <<"ssh">>>> }

\* The URLs callers pass.
RawUrls ==
    { "https://h/r.git", "HTTPS://u:p@h/r", "git@h:r.git", "[git@h:22]:r", "git://h/r",
      "git://h/r/", "h:r.git", "myhelper::h/r", "/tmp/r", "/tmp/r.git", ":r",
      "gh:r/", "gh:xy", "gh:x.git/", "ssh://git@h:22/r", "ssh://h:x/r", "r", "" }

CallNewEndpoint ==
    \E operation \in Operations, rawurl \in RawUrls :
        /\ ret' = [NoCall EXCEPT !.op = "NewEndpoint", !.operation = operation,
                                 !.arg = rawurl,
                                 !.ep = NewEndpoint(Finder, operation, rawurl)]
        /\ UNCHANGED <<threadVars, gitEnv, envNil, validRemotes, gitProtocol, aliases, warned,
                       urlAccess, localConfig, issued, lastRead, lastSet>>

CallNewEndpointFromCloneURL ==
    \E operation \in Operations, rawurl \in RawUrls :
        /\ ret' = [NoCall EXCEPT !.op = "NewEndpointFromCloneURL",
                                 !.operation = operation, !.arg = rawurl,
                                 !.ep = NewEndpointFromCloneURL(Finder, operation, rawurl)]
        /\ UNCHANGED <<threadVars, gitEnv, envNil, validRemotes, gitProtocol, aliases, warned,
                       urlAccess, localConfig, issued, lastRead, lastSet>>

CallReplaceUrlAlias ==
    \E rawurl \in RawUrls :
        /\ ret' = [NoCall EXCEPT !.op = "ReplaceUrlAlias", !.arg = rawurl,
                                 !.str = ReplaceUrlAlias(Finder, rawurl)]
        /\ UNCHANGED <<threadVars, gitEnv, envNil, validRemotes, gitProtocol, aliases, warned,
                       urlAccess, localConfig, issued, lastRead, lastSet>>

InitUrl == \E env \in Envs(UrlSettings, MaxKeys) : NewEndpointFinder(env, FALSE, {})

NextUrl ==
    \/ Idle /\ CallNewEndpoint
    \/ Idle /\ CallNewEndpointFromCloneURL
    \/ Idle /\ CallReplaceUrlAlias
    \/ Return

SpecUrl == InitUrl /\ [][NextUrl]_vars

(***************************************************************************)
(* Every operation of the finder, and Access.Upgrade, called one at a time *)
(* on a finder without settings and on one with an access mode, an alias   *)
(* and two remotes.                                                        *)
(***************************************************************************)

AllEnvs ==
    { EmptyMap,
      EnvOf({ <<AccessKey("https://h/r"), <<"basic">>>>,
              <<"url.https://g/.insteadof", <<"gh:">>>>,
              <<"remote.origin.url", <<"gh:r">>>>,
              <<"remote.up.lfsurl", <<"https://up/api">>>> }) }

\* A caller upgrades an Access that AccessFor handed out and that it holds.
CallUpgrade ==
    \E url \in DOMAIN lastRead, newMode \in SetModes :
        /\ ret' = [NoCall EXCEPT !.op = "Upgrade", !.arg = url, !.str = newMode,
                                 !.access = Upgrade(Access(lastRead[url], url), newMode)]
        /\ UNCHANGED <<threadVars, gitEnv, envNil, validRemotes, gitProtocol, aliases, warned,
                       urlAccess, localConfig, issued, lastRead, lastSet>>

InitAll == \E env \in AllEnvs : NewEndpointFinder(env, FALSE, {})

NextAll ==
    \/ Idle /\ CallEndpoint
    \/ Idle /\ CallRemoteEndpoint
    \/ Idle /\ CallGitRemoteURL
    \/ Idle /\ CallNewEndpoint
    \/ Idle /\ CallNewEndpointFromCloneURL
    \/ Idle /\ CallReplaceUrlAlias
    \/ Idle /\ CallAccessFor
    \/ Idle /\ CallSetAccess
    \/ Idle /\ CallUpgrade
    \/ Return

SpecAll == InitAll /\ [][NextAll]_vars

(***************************************************************************)
(* The finder whose gitEnv field is nil. NewEndpointFinder calls           *)
(* e.gitEnv.Get, so it returns no such finder; the methods test            *)
(* e.gitEnv == nil all the same, and this specification runs them on that  *)
(* finder and, for comparison, on finders with an environment of at most   *)
(* one setting.                                                            *)
(***************************************************************************)

\* A finder without an environment has only its defaults.
InitNoEnv ==
    \/ \E remotes \in {{}, {"v"}} : NewEndpointFinder(EmptyMap, TRUE, remotes)
    \/ \E env \in Envs(CascadeSettings, 1), remotes \in {{}, {"v"}} :
           NewEndpointFinder(env, FALSE, remotes)

NextNoEnv ==
    \/ Idle /\ CallEndpoint
    \/ Idle /\ CallRemoteEndpoint
    \/ Idle /\ CallGitRemoteURL
    \/ Idle /\ CallAccessFor
    \/ Return

SpecNoEnv == InitNoEnv /\ [][NextNoEnv]_vars

(***************************************************************************)
(* Concurrent callers. Two threads call AccessFor, SetAccess and           *)
(* NewEndpoint on one finder; a step is a Lock, an Unlock or the code      *)
(* between two of them, and SetAccess's two writes are a step each.        *)
(***************************************************************************)

finderVars == <<gitEnv, envNil, validRemotes, gitProtocol, aliases, warned>>

callerVars == <<issued, ret, lastRead>>

\* The URLs, modes and environments of the concurrent callers.
ConcUrls == {"https://h/r", "https://u:p@h/r"}

ConcModes == {emptyAccess, NoneAccess, BasicAccess, NegotiateAccess}

ConcRawUrls == {"gh:r", "https://h/r"}

ConcEnvs ==
    { EmptyMap,
      [k \in {AccessKey("https://h/r"), "url.https://g/.insteadof"} |->
          IF k = AccessKey("https://h/r") THEN <<"private">> ELSE <<"gh:">>] }

\* How often fetchGitAccess has read the key of url.
Reads(url) == IF url \in DOMAIN reads THEN reads[url] ELSE 0

\* AccessFor, lines 220-224, on a finder with an environment: the call, up
\* to e.accessMu.Lock().
AccessForBegin(t, rawurl) ==
    LET accessurl == urlWithoutAuth(rawurl)
    IN  /\ pc[t] = "idle"
        /\ ~envNil
        /\ local' = [local EXCEPT ![t] =
                        [NoLocals EXCEPT !.op = "AccessFor", !.rawurl = rawurl,
                                         !.access = Access(NoneAccess, accessurl),
                                         !.uncached = accessurl \notin DOMAIN urlAccess]]
        /\ pc' = [pc EXCEPT ![t] = "AccessFor.Lock"]
        /\ UNCHANGED <<accessMu, aliasMu, reads, finderVars, callerVars,
                       urlAccess, localConfig, lastSet>>

\* AccessFor going on to the cache lookup without taking e.accessMu.
AccessForLock_NoMutex(t) ==
    /\ pc[t] = "AccessFor.Lock"
    /\ pc' = [pc EXCEPT ![t] = "AccessFor.cached"]
    /\ UNCHANGED <<accessMu, aliasMu, local, reads, finderVars, callerVars,
                   urlAccess, localConfig, lastSet>>

\* Line 226: e.accessMu.Lock().
AccessForLock(t) ==
    /\ pc[t] = "AccessFor.Lock"
    /\ accessMu = Free
    /\ accessMu' = t
    /\ pc' = [pc EXCEPT ![t] = "AccessFor.cached"]
    /\ UNCHANGED <<aliasMu, local, reads, finderVars, callerVars,
                   urlAccess, localConfig, lastSet>>

\* Lines 229-231: the cache lookup.
AccessForCached(t) ==
    LET accessurl == local[t].access.url
        hit       == accessurl \in DOMAIN urlAccess
    IN  /\ pc[t] = "AccessFor.cached"
        /\ local' = [local EXCEPT ![t] =
                        IF hit THEN [@ EXCEPT !.hit = TRUE,
                                              !.access = Access(urlAccess[accessurl], accessurl)]
                        ELSE @]
        /\ pc' = [pc EXCEPT ![t] = IF hit THEN "AccessFor.Unlock" ELSE "AccessFor.fetch"]
        /\ UNCHANGED <<accessMu, aliasMu, reads, finderVars, callerVars,
                       urlAccess, localConfig, lastSet>>

\* Lines 233-234: the configuration read and the cache write.
AccessForFetch(t) ==
    LET accessurl == local[t].access.url
        mode      == fetchGitAccess(Finder, accessurl)
    IN  /\ pc[t] = "AccessFor.fetch"
        /\ urlAccess' = Put(urlAccess, accessurl, mode)
        /\ reads' = Put(reads, accessurl, Reads(accessurl) + 1)
        /\ local' = [local EXCEPT ![t] = [@ EXCEPT !.fetched = TRUE,
                                                   !.access = Access(mode, accessurl)]]
        /\ pc' = [pc EXCEPT ![t] = "AccessFor.Unlock"]
        /\ UNCHANGED <<accessMu, aliasMu, finderVars, callerVars, localConfig, lastSet>>

\* AccessFor returning with e.accessMu still locked.
AccessForUnlock_NoRelease(t) ==
    /\ pc[t] = "AccessFor.Unlock"
    /\ pc' = [pc EXCEPT ![t] = "idle"]
    /\ local' = [local EXCEPT ![t] = NoLocals]
    /\ UNCHANGED <<accessMu, aliasMu, reads, finderVars, callerVars,
                   urlAccess, localConfig, lastSet>>

\* Line 227: the deferred e.accessMu.Unlock(), and the return.
AccessForUnlock(t) ==
    /\ pc[t] = "AccessFor.Unlock"
    /\ accessMu' = Free
    /\ pc' = [pc EXCEPT ![t] = "idle"]
    /\ local' = [local EXCEPT ![t] = NoLocals]
    /\ UNCHANGED <<aliasMu, reads, finderVars, callerVars, urlAccess, localConfig, lastSet>>

\* SetAccess, lines 238-239: the call, up to e.accessMu.Lock().
SetAccessBegin(t, access) ==
    /\ pc[t] = "idle"
    /\ local' = [local EXCEPT ![t] = [NoLocals EXCEPT !.op = "SetAccess", !.access = access]]
    /\ pc' = [pc EXCEPT ![t] = "SetAccess.Lock"]
    /\ UNCHANGED <<accessMu, aliasMu, reads, finderVars, callerVars,
                   urlAccess, localConfig, lastSet>>

\* Line 241: e.accessMu.Lock().
SetAccessLock(t) ==
    /\ pc[t] = "SetAccess.Lock"
    /\ accessMu = Free
    /\ accessMu' = t
    /\ pc' = [pc EXCEPT ![t] = "SetAccess.config"]
    /\ UNCHANGED <<aliasMu, local, reads, finderVars, callerVars,
                   urlAccess, localConfig, lastSet>>

\* Lines 246 and 249: UnsetLocalKey or SetLocal.
SetAccessConfig(t) ==
    LET access == local[t].access
        key    == AccessKey(access.url)
    IN  /\ pc[t] = "SetAccess.config"
        /\ localConfig' = IF access.mode \in {emptyAccess, NoneAccess}
                          THEN Remove(localConfig, key)
                          ELSE Put(localConfig, key, access.mode)
        /\ pc' = [pc EXCEPT ![t] = "SetAccess.cache"]
        /\ UNCHANGED <<accessMu, aliasMu, local, reads, finderVars, callerVars,
                       urlAccess, lastSet>>

\* SetAccess leaving the cache as it was.
SetAccessCache_Skip(t) ==
    LET access == local[t].access
    IN  /\ pc[t] = "SetAccess.cache"
        /\ lastSet' = Put(lastSet, access.url, access.mode)
        /\ pc' = [pc EXCEPT ![t] = "SetAccess.Unlock"]
        /\ UNCHANGED <<accessMu, aliasMu, local, reads, finderVars, callerVars,
                       localConfig, urlAccess>>

\* Lines 247 and 250: the cache write.
SetAccessCache(t) ==
    LET access == local[t].access
    IN  /\ pc[t] = "SetAccess.cache"
        /\ urlAccess' = Put(urlAccess, access.url,
                            IF access.mode \in {emptyAccess, NoneAccess}
                            THEN NoneAccess ELSE access.mode)
        /\ lastSet' = Put(lastSet, access.url, access.mode)
        /\ pc' = [pc EXCEPT ![t] = "SetAccess.Unlock"]
        /\ UNCHANGED <<accessMu, aliasMu, local, reads, finderVars, callerVars,
                       localConfig>>

\* Line 242: the deferred e.accessMu.Unlock(), and the return.
SetAccessUnlock(t) ==
    /\ pc[t] = "SetAccess.Unlock"
    /\ accessMu' = Free
    /\ pc' = [pc EXCEPT ![t] = "idle"]
    /\ local' = [local EXCEPT ![t] = NoLocals]
    /\ UNCHANGED <<aliasMu, reads, finderVars, callerVars, urlAccess, localConfig, lastSet>>

\* NewEndpoint, line 187: the call of ReplaceUrlAlias, up to e.aliasMu.Lock().
NewEndpointBegin(t, rawurl) ==
    /\ pc[t] = "idle"
    /\ local' = [local EXCEPT ![t] = [NoLocals EXCEPT !.op = "NewEndpoint", !.rawurl = rawurl]]
    /\ pc' = [pc EXCEPT ![t] = "ReplaceUrlAlias.Lock"]
    /\ UNCHANGED <<accessMu, aliasMu, reads, finderVars, callerVars,
                   urlAccess, localConfig, lastSet>>

\* Line 288: e.aliasMu.Lock().
ReplaceUrlAliasLock(t) ==
    /\ pc[t] = "ReplaceUrlAlias.Lock"
    /\ aliasMu = Free
    /\ aliasMu' = t
    /\ pc' = [pc EXCEPT ![t] = "ReplaceUrlAlias.scan"]
    /\ UNCHANGED <<accessMu, local, reads, finderVars, callerVars,
                   urlAccess, localConfig, lastSet>>

\* Lines 291-306: the scan of the alias table and the rewriting.
ReplaceUrlAliasScan(t) ==
    /\ pc[t] = "ReplaceUrlAlias.scan"
    /\ local' = [local EXCEPT ![t] = [@ EXCEPT !.str = ReplaceUrlAlias(Finder, local[t].rawurl)]]
    /\ pc' = [pc EXCEPT ![t] = "ReplaceUrlAlias.Unlock"]
    /\ UNCHANGED <<accessMu, aliasMu, reads, finderVars, callerVars,
                   urlAccess, localConfig, lastSet>>

\* Line 289: the deferred e.aliasMu.Unlock(), and the return to NewEndpoint.
ReplaceUrlAliasUnlock(t) ==
    /\ pc[t] = "ReplaceUrlAlias.Unlock"
    /\ aliasMu' = Free
    /\ pc' = [pc EXCEPT ![t] = "NewEndpoint.classify"]
    /\ UNCHANGED <<accessMu, local, reads, finderVars, callerVars,
                   urlAccess, localConfig, lastSet>>

\* Lines 188-216: the classification of the rewritten URL, and the return.
NewEndpointClassify(t) ==
    /\ pc[t] = "NewEndpoint.classify"
    /\ ret' = [NoCall EXCEPT !.op = "NewEndpoint", !.arg = local[t].rawurl,
                             !.ep = parseAndClassify(Finder, local[t].str)]
    /\ pc' = [pc EXCEPT ![t] = "idle"]
    /\ local' = [local EXCEPT ![t] = NoLocals]
    /\ UNCHANGED <<accessMu, aliasMu, reads, finderVars, issued, lastRead,
                   urlAccess, localConfig, lastSet>>

InitConc == \E env \in ConcEnvs : NewEndpointFinder(env, FALSE, {})

\* Thread t calls a method.
Call(t) ==
    \/ \E rawurl \in ConcUrls : AccessForBegin(t, rawurl)
    \/ \E url \in {urlWithoutAuth(u) : u \in ConcUrls}, mode \in ConcModes :
           SetAccessBegin(t, Upgrade(Access(emptyAccess, url), mode))
    \/ \E rawurl \in ConcRawUrls : NewEndpointBegin(t, rawurl)

\* Thread t takes the next step of AccessFor, SetAccess or ReplaceUrlAlias.
LockedStep(t) ==
    \/ AccessForLock(t)
    \/ AccessForCached(t)
    \/ AccessForFetch(t)
    \/ AccessForUnlock(t)
    \/ SetAccessLock(t)
    \/ SetAccessConfig(t)
    \/ SetAccessCache(t)
    \/ SetAccessUnlock(t)
    \/ ReplaceUrlAliasLock(t)
    \/ ReplaceUrlAliasScan(t)
    \/ ReplaceUrlAliasUnlock(t)

\* Thread t takes the next step of the method it is in.
Proceed(t) == LockedStep(t) \/ NewEndpointClassify(t)

NextConc == \E t \in Threads : Call(t) \/ Proceed(t)

SpecConc == InitConc /\ [][NextConc]_vars

(***************************************************************************)
(* The access cache: properties of Spec.                                   *)
(***************************************************************************)

\* C2: on a finder with a configuration source, an AccessFor call for a URL
\* whose credential-stripped form is already cached performs no configuration
\* lookup and returns the cached mode, and an AccessFor call that follows an
\* earlier one for the same URL with no SetAccess for it in between returns
\* the mode the earlier call returned.
C2_CachedAccessFor ==
    [][(ret'.op = "AccessFor" /\ ~envNil) =>
          LET k == ret'.access.url
          IN  /\ k \in DOMAIN urlAccess =>
                    /\ ~ret'.fetched
                    /\ urlAccess' = urlAccess
                    /\ ret'.access.mode = urlAccess[k]
              /\ k \in DOMAIN lastRead => ret'.access.mode = lastRead[k]]_vars

\* C2 witness: a call answered from an entry an earlier AccessFor cached,
\* for a URL the configuration has a value for.
C2_Witness ==
    /\ ~envNil
    /\ ret.op = "AccessFor" /\ ret.hit /\ ~ret.fetched
    /\ ret.access.url \notin DOMAIN lastSet
    /\ UrlConfigGet(gitEnv, ret.access.url).ok

\* What AccessFor(url) returns after SetAccess was last called for url with
\* the mode lastSet[url].
ModeAfterSet(url) ==
    IF lastSet[url] \in {emptyAccess, NoneAccess} THEN NoneAccess ELSE lastSet[url]

\* C3: after SetAccess(a), the next AccessFor(a.url) with no other SetAccess
\* for that URL in between returns the mode that was set, without consulting
\* configuration; when the mode set is none or the empty sentinel, the local
\* key lfs.<url>.access has been removed and AccessFor returns none.
C3_SetThenAccessFor ==
    [][(ret'.op = "AccessFor" /\ ret'.arg \in DOMAIN lastSet) =>
          /\ ret'.access.mode = ModeAfterSet(ret'.arg)
          /\ ~ret'.fetched
          /\ lastSet[ret'.arg] \in {emptyAccess, NoneAccess} =>
                 AccessKey(ret'.arg) \notin DOMAIN localConfig]_vars

\* C3 witness: AccessFor returned none after SetAccess with none removed a
\* key the environment snapshot still holds.
C3_Witness ==
    /\ ret.op = "AccessFor" /\ ret.arg \in DOMAIN lastSet
    /\ lastSet[ret.arg] = NoneAccess /\ ret.access.mode = NoneAccess
    /\ UrlConfigGet(gitEnv, ret.arg).ok
    /\ AccessKey(ret.arg) \notin DOMAIN localConfig

\* C7: the Access AccessFor returns never has mode private.
C7_NeverPrivate ==
    ret.op = "AccessFor" => ret.access.mode # PrivateAccess

\* C8: when AccessFor misses the cache, a configured value 'private' gives
\* mode basic, returned and cached, and an absent or empty value gives none.
C8_FetchNormalises ==
    (ret.op = "AccessFor" /\ ret.fetched) =>
        LET url == ret.access.url
            v   == UrlConfigGet(gitEnv, url)
        IN  /\ (v.ok /\ v.v = "private") =>
                   (ret.access.mode = BasicAccess /\ urlAccess[url] = BasicAccess)
            /\ (~v.ok \/ v.v = "") =>
                   (ret.access.mode = NoneAccess /\ urlAccess[url] = NoneAccess)

\* C8 witness: a miss on a URL configured 'private' returned basic.
C8_Witness ==
    /\ ret.op = "AccessFor" /\ ret.fetched
    /\ UrlConfigGet(gitEnv, ret.access.url).v = "private"
    /\ ret.access.mode = BasicAccess

(***************************************************************************)
(* The resolution cascade: properties of SpecCascade.                      *)
(***************************************************************************)

\* An endpoint with the operation tag set, and with it cleared.
Tag(ep, operation) == [ep EXCEPT !.Operation = operation]

Untag(ep) == [ep EXCEPT !.Operation = ""]

\* lfs.pushurl applies (rule 1), lfs.url applies (rule 2).
PushUrlApplies(env, operation) == operation = "upload" /\ Get(env, "lfs.pushurl").ok

LfsUrlApplies(env, operation) == ~PushUrlApplies(env, operation) /\ Get(env, "lfs.url").ok

\* The remote-scoped rule for remote r as C1 states it: whether one of the
\* keys of r decides the endpoint, and the endpoint it decides. An empty
\* git URL decides nothing.
ScopedRule(e, operation, r) ==
    LET lfspushurl == Get(e.gitEnv, "remote." \o r \o ".lfspushurl")
        lfsurl     == Get(e.gitEnv, "remote." \o r \o ".lfsurl")
        pushurl    == Get(e.gitEnv, "remote." \o r \o ".pushurl")
        url        == Get(e.gitEnv, "remote." \o r \o ".url")
        giturl     == IF operation = "upload" /\ pushurl.ok THEN pushurl ELSE url
    IN  IF operation = "upload" /\ lfspushurl.ok
        THEN [applies |-> TRUE, ep |-> NewEndpoint(e, operation, lfspushurl.v)]
        ELSE IF lfsurl.ok
        THEN [applies |-> TRUE, ep |-> NewEndpoint(e, operation, lfsurl.v)]
        ELSE IF giturl.ok /\ giturl.v # ""
        THEN [applies |-> TRUE, ep |-> NewEndpointFromCloneURL(e, operation, giturl.v)]
        ELSE [applies |-> FALSE, ep |-> EmptyEndpoint]

\* C1: Endpoint returns the endpoint of the first rule that applies:
\* lfs.pushurl (upload only), then lfs.url whatever the remote, then the
\* remote-scoped rule lfspushurl (upload only) -> lfsurl -> clone URL, for
\* the named remote when it yields a URL and for the default remote otherwise.
C1_Precedence ==
    ret.op = "Endpoint" =>
        LET op == ret.operation
            r  == IF ret.arg = "" THEN defaultRemote ELSE ret.arg
            sr == ScopedRule(Finder, op, r)
            so == ScopedRule(Finder, op, defaultRemote)
        IN  IF PushUrlApplies(gitEnv, op)
            THEN ret.ep = Tag(NewEndpoint(Finder, op, Get(gitEnv, "lfs.pushurl").v), op)
            ELSE IF LfsUrlApplies(gitEnv, op)
            THEN ret.ep = Tag(NewEndpoint(Finder, op, Get(gitEnv, "lfs.url").v), op)
            ELSE IF sr.applies /\ (r = defaultRemote \/ sr.ep.Url # "")
            THEN ret.ep = Tag(sr.ep, op)
            ELSE IF sr.applies
            THEN so.applies => ret.ep = Tag(so.ep, op)
            ELSE TRUE

\* C1 witness: for a download from origin with remote.origin.lfsurl and
\* remote.origin.url both set, the endpoint is the lfsurl value.
C1_Witness ==
    /\ ret.op = "Endpoint" /\ ret.operation = "download" /\ ret.arg = "origin"
    /\ ~Get(gitEnv, "lfs.url").ok
    /\ Get(gitEnv, "remote.origin.lfsurl").ok
    /\ Get(gitEnv, "remote.origin.url").ok
    /\ ret.ep.Url = Get(gitEnv, "remote.origin.lfsurl").v

\* The keys only uploads read.
PushKeys ==
    {"lfs.pushurl"}
    \cup {"remote." \o r \o ".lfspushurl" : r \in Remotes \ {""}}
    \cup {"remote." \o r \o ".pushurl" : r \in Remotes \ {""}}

\* The environments that differ from env at most in the push keys, each
\* absent or set to one of the values CascadeSettings gives it.
PushVariants(env) ==
    LET settings == {p \in CascadeSettings : p[1] \in PushKeys}
        others   == [k \in DOMAIN env \ PushKeys |-> env[k]]
    IN  {[k \in DOMAIN others \cup {p[1] : p \in S} |->
              IF k \in DOMAIN others THEN others[k] ELSE (CHOOSE p \in S : p[1] = k)[2]] :
            S \in {T \in SUBSET settings : \A p, q \in T : p[1] = q[1] => p = q}}

\* The download endpoint does not depend on the push keys.
DownloadIgnoresPushKeys ==
    (ret.op = "Endpoint" /\ ret.operation = "download") =>
        \A env2 \in PushVariants(gitEnv) :
            Endpoint([Finder EXCEPT !.gitEnv = env2], "download", ret.arg) = ret.ep

\* The named remote has both remote.<r>.lfspushurl and remote.<r>.lfsurl and
\* no global key is set.
BothScopedSet(r) ==
    /\ ~Get(gitEnv, "lfs.pushurl").ok /\ ~Get(gitEnv, "lfs.url").ok
    /\ Get(gitEnv, "remote." \o r \o ".lfspushurl").ok
    /\ Get(gitEnv, "remote." \o r \o ".lfsurl").ok

\* The endpoint of the value of the key remote.<r>.<name>.
ScopedValueEndpoint(r, name, operation) ==
    Tag(NewEndpoint(Finder, operation, Get(gitEnv, "remote." \o r \o "." \o name).v),
        operation)

C10_DefaultRemoteFallback ==
    (/\ ret.op = "Endpoint"
     /\ ~PushUrlApplies(gitEnv, ret.operation)
     /\ ~LfsUrlApplies(gitEnv, ret.operation)) =>
        LET scoped == RemoteEndpoint(Finder, ret.operation, ret.arg)
            dflt   == RemoteEndpoint(Finder, ret.operation, defaultRemote)
        IN  IF ret.arg # "" /\ ret.arg # defaultRemote /\ scoped.Url # ""
            THEN ret.ep = Tag(scoped, ret.operation)
            ELSE ret.ep = Tag(dflt, ret.operation)

\* C10 witness: the named remote resolved to an empty URL and the result is
\* the non-empty endpoint of origin.
C10_Witness ==
    /\ ret.op = "Endpoint" /\ ret.arg = "up"
    /\ ~PushUrlApplies(gitEnv, ret.operation)
    /\ ~LfsUrlApplies(gitEnv, ret.operation)
    /\ RemoteEndpoint(Finder, ret.operation, "up").Url = ""
    /\ ret.ep.Url # ""
    /\ ret.ep = Tag(RemoteEndpoint(Finder, ret.operation, defaultRemote), ret.operation)

(***************************************************************************)
(* URL classification and alias rewriting: properties of SpecUrl.          *)
(***************************************************************************)

\* The URL a clone URL's endpoint gets from the URL url of its classified
\* endpoint: one trailing '/' stripped, then "/info/lfs" after a final
\* extension ".git" and ".git/info/lfs" otherwise.
LfsUrlOf(url) ==
    LET base == IF HasSuffix(url, "/") THEN SubSeq(url, 1, Len(url) - 1) ELSE url
    IN  IF PathExt(base) = ".git" THEN base \o "/info/lfs" ELSE base \o ".git/info/lfs"

\* C4: whenever NewEndpointFromCloneURL(operation, raw) has returned and
\* NewEndpoint(operation, raw) is not the unknown sentinel, the URL returned
\* is NewEndpoint's URL (after alias rewriting and scheme transformation)
\* with one trailing '/' stripped and the LFS suffix appended.
C4_CloneUrlFromClassified ==
    ret.op = "NewEndpointFromCloneURL"
    /\ NewEndpoint(Finder, ret.operation, ret.arg).Url # UrlUnknown
    => ret.ep.Url = LfsUrlOf(NewEndpoint(Finder, ret.operation, ret.arg).Url)

\* The prefixes of the alias table that are literal prefixes of rawurl.
Matching(rawurl) == {a \in DOMAIN aliases : HasPrefix(rawurl, a)}

\* The matching prefix of greatest length; two matching prefixes of one
\* length are the same string, so the tie-break never decides.
Longest(rawurl) ==
    CHOOSE a \in Matching(rawurl) : \A b \in Matching(rawurl) : Len(b) <= Len(a)

\* C5: whenever ReplaceUrlAlias(rawurl) has returned, the result is the
\* replacement of the longest table prefix that is a literal prefix of
\* rawurl followed by the rest of rawurl, and rawurl itself when no table
\* prefix is a prefix of rawurl.
C5_LongestPrefixReplaced ==
    ret.op = "ReplaceUrlAlias"
    => ret.str = IF Matching(ret.arg) = {} THEN ret.arg
                 ELSE aliases[Longest(ret.arg)] \o From(ret.arg, Len(Longest(ret.arg)))

\* The finder's default protocol as the configuration gives it.
DefaultProtocol ==
    IF "lfs.gitprotocol" \in DOMAIN gitEnv
    THEN gitEnv["lfs.gitprotocol"][Len(gitEnv["lfs.gitprotocol"])] ELSE "https"

\* What the first applicable rule makes of the alias-rewritten URL rawurl,
\* u being its parse: the endpoint family and the URL it is built from.
FirstRule(rawurl, u, ep) ==
    IF HasPrefix(rawurl, "/") THEN ep = EndpointFromLocalPath(rawurl)
    ELSE IF u.err THEN ep = EndpointFromBareSshUrl(rawurl)
    ELSE IF u.Scheme = "ssh" THEN ep = EndpointFromSshUrl(u)
    ELSE IF u.Scheme \in {"http", "https"}
         THEN ep = EndpointFromHttpUrl(u) /\ HasPrefix(ep.Url, u.Scheme \o ":")
    ELSE IF u.Scheme = "git"
         THEN ep = EndpointUrl(DefaultProtocol \o From(String(u), Len("git")))
    ELSE IF u.Scheme = "" THEN ep = EndpointFromBareSshUrl(String(u))
    ELSE IF HasPrefix(rawurl, u.Scheme \o "::") THEN ep = EndpointUrl(rawurl)
    ELSE ep = EndpointFromBareSshUrl(String(u))

\* C6: whenever NewEndpoint has returned, its result is an endpoint, the one
\* the first applicable rule of the classification gives for the
\* alias-rewritten input: local path, bare SSH on a parse failure, SSH,
\* HTTP with the scheme kept, git with the default protocol as scheme, bare
\* SSH for no scheme, the URL itself for '<scheme>::', bare SSH otherwise.
C6_FirstApplicableRule ==
    ret.op = "NewEndpoint"
    => /\ DOMAIN ret.ep = DOMAIN EmptyEndpoint
       /\ FirstRule(ReplaceUrlAlias(Finder, ret.arg),
                    Parse(ReplaceUrlAlias(Finder, ret.arg)), ret.ep)

\* NewEndpoint has rewritten "gh:xy" by the longer of two matching aliases
\* to a git:// URL and returned it under the configured protocol.
C6_Witness ==
    /\ ret.op = "NewEndpoint"
    /\ ret.arg = "gh:xy"
    /\ ReplaceUrlAlias(Finder, ret.arg) = "git://x/y"
    /\ gitProtocol = "ssh"
    /\ ret.ep.Url = "ssh://x/y"

(***************************************************************************)
(* The finder without an environment: properties of SpecNoEnv.             *)
(***************************************************************************)

\* No rule of the cascade yields a URL for (operation, r): no global key
\* applies, and neither r nor the default remote has an LFS key that
\* applies or a git URL.
NoRuleYieldsUrl(e, operation, r) ==
    /\ ~PushUrlApplies(e.gitEnv, operation)
    /\ ~LfsUrlApplies(e.gitEnv, operation)
    /\ \A x \in {IF r = "" THEN defaultRemote ELSE r, defaultRemote} :
           /\ operation = "upload" => ~Get(e.gitEnv, "remote." \o x \o ".lfspushurl").ok
           /\ ~Get(e.gitEnv, "remote." \o x \o ".lfsurl").ok
           /\ GitRemoteURL(e, x, operation = "upload") = ""

\* C11: whenever Endpoint(operation, remote) has returned, the result is an
\* endpoint carrying the operation asked for, and it is the zero Endpoint
\* with that operation when the finder has no environment or no rule yields
\* a URL.
C11_TaggedOrZero ==
    ret.op = "Endpoint"
    => /\ DOMAIN ret.ep = DOMAIN EmptyEndpoint
       /\ ret.ep.Operation = ret.operation
       /\ envNil \/ NoRuleYieldsUrl(Finder, ret.operation, ret.arg)
          => ret.ep = Tag(EmptyEndpoint, ret.operation)

\* C11 witness: Endpoint returned the tagged zero Endpoint for a remote that
\* git accepts, on the finder without an environment.
C11_Witness ==
    /\ envNil
    /\ ret.op = "Endpoint" /\ ret.operation = "upload" /\ ret.arg = "v"
    /\ "v" \in validRemotes
    /\ ret.ep = Tag(EmptyEndpoint, "upload")

\* C12: on the finder without an environment every AccessFor(rawurl) step
\* returns mode none for rawurl without its credentials, reads no
\* configuration and leaves the access cache as it was, empty.
C12_NoEnvAccessFor ==
    [][envNil /\ ret'.op = "AccessFor"
       => /\ ret'.access = Access(NoneAccess, urlWithoutAuth(ret'.arg))
          /\ ~ret'.fetched
          /\ urlAccess' = urlAccess
          /\ urlAccess' = EmptyMap]_vars

\* C12 witness: after AccessFor calls for other URLs, AccessFor of a URL
\* with credentials returned none for the URL without them, the cache empty.
C12_Witness ==
    /\ envNil
    /\ ret.op = "AccessFor" /\ ret.arg = "https://u:p@h/r"
    /\ ret.access = Access(NoneAccess, "https://h/r")
    /\ {"git@h:r", "https://h/r"} \subseteq DOMAIN lastRead
    /\ urlAccess = EmptyMap

(***************************************************************************)
(* Construction of the alias table: properties of SpecUrl.                 *)
(***************************************************************************)

\* The finders NewEndpointFinder can build from the environment of this
\* finder: one for each order in which initAliases can visit the keys.
SameSnapshotFinders ==
    {[Finder EXCEPT !.aliases = initAliases(gitEnv, order).aliases] :
        order \in Orders(AliasKeys(gitEnv))}

\* C13: whatever this finder has returned for a raw URL, every finder built
\* from the same environment returns for it: the same rewritten URL and
\* the same endpoint.
C13_Deterministic ==
    \A other \in SameSnapshotFinders :
        /\ ret.op = "ReplaceUrlAlias" => ret.str = ReplaceUrlAlias(other, ret.arg)
        /\ ret.op = "NewEndpoint" => ret.ep = NewEndpoint(other, ret.operation, ret.arg)
        /\ ret.op = "NewEndpointFromCloneURL"
           => ret.ep = NewEndpointFromCloneURL(other, ret.operation, ret.arg)

(***************************************************************************)
(* Concurrent callers: properties of SpecConc.                             *)
(***************************************************************************)

\* Thread t is in AccessFor and has missed the cache.
Missed(t) ==
    \/ pc[t] = "AccessFor.fetch"
    \/ pc[t] = "AccessFor.Unlock" /\ local[t].fetched

\* C14 as stated: a second AccessFor for a URL can look the URL up in the
\* cache while the first has missed and not yet written, and so miss as
\* well: whenever one thread is about to read the configuration for a URL
\* and another has called AccessFor for the same URL, the other can go on.
C14_Original ==
    \A t, u \in Threads :
        /\ t # u
        /\ pc[t] = "AccessFor.fetch"
        /\ pc[u] = "AccessFor.Lock"
        /\ local[u].access.url = local[t].access.url
        => ENABLED AccessForLock(u)

\* C14, amended: concurrent AccessFor calls for one URL are serialised by
\* accessMu. No two threads have missed the cache for the same URL, the
\* key of a URL is read at most once, and a call about to return has either
\* hit or read, and returns the mode the cache holds.
C14_SerialisedMiss ==
    /\ \A t, u \in Threads :
           t # u /\ Missed(t) /\ Missed(u) => local[t].access.url # local[u].access.url
    /\ \A url \in DOMAIN reads : reads[url] <= 1
    /\ \A t \in Threads :
           pc[t] = "AccessFor.Unlock"
           => /\ local[t].hit # local[t].fetched
              /\ local[t].access.url \in DOMAIN urlAccess
              /\ local[t].access.mode = urlAccess[local[t].access.url]

\* C14 witness: a thread called AccessFor for a URL that was not cached,
\* waited, and hit the entry the other thread's read had written meanwhile.
C14_Witness ==
    \E t \in Threads :
        /\ pc[t] = "AccessFor.Unlock"
        /\ local[t].uncached /\ local[t].hit
        /\ lastSet = EmptyMap
        /\ Reads(local[t].access.url) = 1
        /\ local[t].access.mode = BasicAccess

\* The steps at which a thread holds each mutex.
InAccessSection(t) ==
    pc[t] \in {"AccessFor.cached", "AccessFor.fetch", "AccessFor.Unlock",
               "SetAccess.config", "SetAccess.cache", "SetAccess.Unlock"}

InAliasSection(t) == pc[t] \in {"ReplaceUrlAlias.scan", "ReplaceUrlAlias.Unlock"}

\* C15: no thread holds aliasMu and accessMu together; a thread holds a
\* mutex exactly while it is between the Lock and the Unlock of a call, so
\* none after the call has returned; and whenever a thread is in a call,
\* some thread in a call can take a step (the classification of NewEndpoint
\* waits for nothing), so no state is a deadlock.
C15_LockDiscipline ==
    /\ \A t \in Threads :
           /\ ~(accessMu = t /\ aliasMu = t)
           /\ accessMu = t <=> InAccessSection(t)
           /\ aliasMu = t <=> InAliasSection(t)
           /\ pc[t] = "idle" => accessMu # t /\ aliasMu # t
    /\ (\E t \in Threads : pc[t] # "idle") =>
           \E u \in Threads : pc[u] = "NewEndpoint.classify" \/ ENABLED LockedStep(u)

\* C15 witness: one thread holds accessMu in SetAccess while the other
\* holds aliasMu in ReplaceUrlAlias.
C15_Witness ==
    /\ accessMu = "t1" /\ pc["t1"] = "SetAccess.cache"
    /\ aliasMu = "t2" /\ pc["t2"] = "ReplaceUrlAlias.scan"

\* Thread t is inside SetAccess.
InSetAccess(t) ==
    pc[t] \in {"SetAccess.Lock", "SetAccess.config", "SetAccess.cache", "SetAccess.Unlock"}

\* The mode SetAccess caches for the mode it is given (lines 244-251).
Cached(mode) == IF mode \in {emptyAccess, NoneAccess} THEN NoneAccess ELSE mode

\* C16: under any interleaving of SetAccess and AccessFor calls, whenever no
\* SetAccess is in progress, every URL that was passed to SetAccess has a
\* cache entry that agrees with the local configuration: the key
\* lfs.<url>.access is absent exactly when the cached mode is none, otherwise
\* its value is the cached mode, and both are those of the last SetAccess.
C16_CacheMirrorsConfig ==
    (\A t \in Threads : ~InSetAccess(t)) =>
        \A url \in DOMAIN lastSet :
            LET key == AccessKey(url)
            IN  /\ url \in DOMAIN urlAccess
                /\ urlAccess[url] = Cached(lastSet[url])
                /\ key \notin DOMAIN localConfig <=> urlAccess[url] = NoneAccess
                /\ key \in DOMAIN localConfig => localConfig[key] = urlAccess[url]

\* Two SetAccess calls have run, the last one with a mode that is kept, and an
\* AccessFor call for the same URL is about to return the cached mode.
C16_Witness ==
    /\ \A t \in Threads : ~InSetAccess(t)
    /\ \E url \in DOMAIN lastSet :
           /\ lastSet[url] = NegotiateAccess
           /\ AccessKey(url) \in DOMAIN localConfig
           /\ \E t \in Threads : pc[t] = "AccessFor.Unlock" /\ local[t].hit
                                  /\ local[t].access.url = url

\* C17: SetAccess is the only operation that changes the local
\* configuration; Endpoint, RemoteEndpoint, GitRemoteURL, NewEndpoint,
\* NewEndpointFromCloneURL, ReplaceUrlAlias, Upgrade and AccessFor leave it
\* as it is, and all of them but AccessFor leave the access cache as it is;
\* Upgrade returns an Access with its receiver's URL and the new mode, and the
\* receiver is what it was.
C17_OnlySetAccessPersists ==
    [][ /\ ret'.op # "SetAccess" => localConfig' = localConfig
        /\ ret'.op \notin {"SetAccess", "AccessFor"} => urlAccess' = urlAccess
        /\ ret'.op = "Upgrade" =>
               /\ ret'.access = Access(ret'.str, ret'.arg)
               /\ lastRead' = lastRead
               /\ ret'.arg \in DOMAIN lastRead ]_vars

\* After a SetAccess for another URL, AccessFor has just filled the cache on
\* a miss with the mode it read.
C17_Witness ==
    /\ ret.op = "AccessFor" /\ ret.fetched
    /\ ret.access.mode = BasicAccess
    /\ urlAccess[ret.access.url] = BasicAccess
    /\ lastSet # EmptyMap
    /\ ret.access.url \notin DOMAIN lastSet

(***************************************************************************)
(* The contents of the alias table: properties of SpecUrl.                 *)
(***************************************************************************)

\* The <X> of the key url.<X>.insteadof.
Replacement(key) == SubSeq(key, Len(aliasPrefix) + 1, Len(key) - Len(".insteadof"))

\* C18: for every key url.<X>.insteadof of the configuration with a
\* non-empty value list and every value v of the list, the alias table maps
\* v to X, and a ReplaceUrlAlias of a URL whose longest matching prefix is
\* v has returned X followed by the rest of the URL; after every lookup the
\* table is still one that initAliases builds from the configuration.
C18_EveryValueAliased ==
    /\ \A key \in AliasKeys(gitEnv) : \A i \in 1..Len(gitEnv[key]) :
           LET v == gitEnv[key][i]
           IN  /\ v \in DOMAIN aliases
               /\ aliases[v] = Replacement(key)
               /\ (ret.op = "ReplaceUrlAlias" /\ HasPrefix(ret.arg, v)
                   /\ \A a \in Matching(ret.arg) : Len(a) <= Len(v))
                  => ret.str = Replacement(key) \o From(ret.arg, Len(v))
    /\ \E order \in Orders(AliasKeys(gitEnv)) : aliases = initAliases(gitEnv, order).aliases

\* The prefix storeAlias files the key under: the last of its values.
PrefixOf(env, key) == env[key][Len(env[key])]

\* The positions in the visiting order of the keys that claim prefix v.
Claimants(env, order, v) == {i \in DOMAIN order : PrefixOf(env, order[i]) = v}

\* What C19 says of the table t built by visiting the alias keys in order.
LastWins(env, order, t) ==
    \A v \in {PrefixOf(env, k) : k \in AliasKeys(env)} :
        LET claimants == Claimants(env, order, v)
            last      == CHOOSE i \in claimants : \A j \in claimants : j <= i
        IN  /\ v \in DOMAIN t.aliases
            /\ t.aliases[v] = Replacement(order[last])
            /\ v \in t.warned <=> Cardinality(claimants) >= 2

\* C19: the finder is one that initAliases builds from its environment; and
\* in whatever order initAliases visits the keys, a prefix that two keys
\* claim is warned about and has the replacement of the key visited last,
\* and a prefix that one key claims is not warned about.
C19_LastSeenWins ==
    /\ \E order \in Orders(AliasKeys(gitEnv)) :
           /\ aliases = initAliases(gitEnv, order).aliases
           /\ warned = initAliases(gitEnv, order).warned
           /\ LastWins(gitEnv, order, [aliases |-> aliases, warned |-> warned])
    /\ \A order \in Orders(AliasKeys(gitEnv)) :
           LastWins(gitEnv, order, initAliases(gitEnv, order))
    /\ DOMAIN aliases = {PrefixOf(gitEnv, k) : k \in AliasKeys(gitEnv)}
    /\ warned \subseteq DOMAIN aliases

\* Two keys claim "gh:", the finder was built with a warning, and it has
\* rewritten a URL with the replacement of the key that was visited last.
C19_Witness ==
    /\ {"url.https://g/.insteadof", "url.ssh://d/.insteadof"} \subseteq DOMAIN gitEnv
    /\ warned = {"gh:"}
    /\ aliases["gh:"] = "ssh://d/"
    /\ ret.op = "ReplaceUrlAlias" /\ ret.arg = "gh:r/" /\ ret.str = "ssh://d/r/"

====
